---- MODULE Spec2Model ----
(***************************************************************************)
(* The guessing game of src/main.rs: guess_a_number (lines 153-211) and    *)
(* the validated integer Guess (lines 214-236).                            *)
(*                                                                         *)
(* A line of standard input is a sequence of one-character strings.  An    *)
(* Option is a sequence of length 0 (None) or 1 (Some).                    *)
(***************************************************************************)
EXTENDS Integers, Sequences, FiniteSets

VARIABLES
    pc,             \* where the program is: "start", "loop", "match", "done", "panicked";
                    \* "call", "returned" in the harness of Guess::new
    secret_number,  \* line 183 (NoSecret before it is drawn)
    attempts,       \* line 184
    stdout,         \* the lines println! has written, in order
    feedback,       \* Option: the text of the most recent feedback line
    guess_line,     \* Option: the String `guess` of line 192, as read by read_line
    guess_num,      \* Option: the Result of line 197
    guess,          \* Option: the Guess of line 198
    panic           \* Option: the message of the panic that aborted the process

vars == <<pc, secret_number, attempts, stdout, feedback, guess_line, guess_num, guess, panic>>

---------------------------------------------------------------------------
(* Bounds of the model. *)

\* Turns the model lets a game take.
MaxTurns == 3
\* Length of the generated input lines, the newline not counted.
MaxLineLen == 2
\* How far beyond [1,100] the Guess::new harness draws its argument.
ValueMargin == 5

---------------------------------------------------------------------------
(* Program constants. *)

I32_MAX == 2147483647
I32_MIN == -I32_MAX - 1

\* gen_range(0..100): the end of the half-open range the secret is drawn from.
SecretRangeEnd == 100
\* The bounds Guess::new tests against.
GuessMin == 1
GuessMax == 100

None == <<>>
Some(x) == <<x>>
NoSecret == -1

small_variations == <<
    "Well, butter my biscuit! That guess is smaller than a flea on a flea's back! Try again!",
    "Oh dear, that guess is tinier than a teaspoon in a sea of soup! Give it another shot!",
    "Whoa, that guess is smaller than a pixel on a smartphone screen! Back to the drawing board!",
    "Yikes! That guess is smaller than a seed in a sunflower! Let's aim higher, shall we?",
    "Goodness gracious! That guess is smaller than a snowflake in July! Let's try something bigger!",
    "Oh my stars! That guess is smaller than a teaspoon in a galaxy-sized cup of cosmic cocoa! Give it another go!",
    "Golly gee! That guess is tinier than a tater tot in a toddler's lunchbox! Let's aim higher, champ!",
    "Holy guacamole! That guess is smaller than a seed in an avocado! Time to think bigger!",
    "Oh snap! That guess is smaller than a speck of dust on a flea's wing! Let's beef it up!",
    "Well, slap my knee! That guess is smaller than a raindrop in a desert! Try again, partner!" >>

large_variations == <<
    "Whoa there, that guess is bigger than a burger on cheat day! But not quite right!",
    "Hoo boy, that guess is larger than a slice of cake at a birthday party! Try again!",
    "Holy moly, that guess is grander than a triple-decker sandwich! Let's dial it back a bit!",
    "Goodness gracious, that guess is as huge as a whale in a goldfish bowl! Try something smaller!",
    "Gee whiz, that guess is larger than a mountain in a molehill contest! Let's scale it down!",
    "Well, slap my hand! That guess is bigger than Texas on a map! Let's rein it in a tad!",
    "Whoopsie daisy! That guess is bigger than a bus in a bike lane! Try something more modest!",
    "Oh my, that guess is larger than life itself! But alas, not quite right! Try again, champ!",
    "Hold your horses! That guess is bigger than a parade float on a sidewalk! Let's trim it down!",
    "Whoosh! That guess is flying higher than a kite in a thunderstorm! Bring it back to earth, buddy!" >>

Range(s) == { s[i] : i \in DOMAIN s }

\* gen_range(lo..hi): the half-open range lo..hi-1.
gen_range(lo, hi) == lo .. (hi - 1)

---------------------------------------------------------------------------
(* The lines of standard output.  A feedback line is recorded in stdout by *)
(* the pool it was taken from; its text is in `feedback`.                  *)

WelcomeLine == <<"Welcome to the guessing game of epic proportions!">>
PromptLine == <<"Alrighty, what number are you tossing into the ring today?">>
SmallLine == <<"small_variations">>
LargeLine == <<"large_variations">>
ConfettiLine == <<"Cue the confetti!!">>
\* Mutant of VictoryLine: the two format arguments in the wrong order.
VictoryLine_swapped(secret, tries) ==
    <<"The secret number is indeed {}! You guessed it right with only {} tries! ", tries, secret>>

VictoryLine(secret, tries) ==
    <<"The secret number is indeed {}! You guessed it right with only {} tries! ", secret, tries>>

---------------------------------------------------------------------------
(* str::trim and str::parse::<i32> (line 197). *)

Digits == <<"0", "1", "2", "3", "4", "5", "6", "7", "8", "9">>
is_digit(c) == c \in Range(Digits)
to_digit(c) == (CHOOSE i \in DOMAIN Digits : Digits[i] = c) - 1
is_whitespace(c) == c \in {" ", "\t", "\n", "\r"}

RECURSIVE trim_start(_)
trim_start(s) ==
    IF s # <<>> /\ is_whitespace(Head(s)) THEN trim_start(Tail(s)) ELSE s

RECURSIVE trim_end(_)
trim_end(s) ==
    IF s # <<>> /\ is_whitespace(s[Len(s)]) THEN trim_end(SubSeq(s, 1, Len(s) - 1)) ELSE s

trim(s) == trim_end(trim_start(s))

Ok(v) == [ok |-> TRUE, val |-> v, err |-> ""]
Err(e) == [ok |-> FALSE, val |-> 0, err |-> e]

\* The digits of a number, most significant first, accumulated with checked
\* multiplication and addition (subtraction for a negative number).
RECURSIVE parse_digits(_, _, _)
parse_digits(d, acc, positive) ==
    IF d = <<>> THEN Ok(acc)
    ELSE IF ~is_digit(Head(d)) THEN Err("InvalidDigit")
    ELSE IF positive
         THEN IF acc > I32_MAX \div 10 \/ acc * 10 > I32_MAX - to_digit(Head(d))
              THEN Err("PosOverflow")
              ELSE parse_digits(Tail(d), acc * 10 + to_digit(Head(d)), positive)
         ELSE IF acc < -(I32_MAX \div 10) \/ acc * 10 < I32_MIN + to_digit(Head(d))
              THEN Err("NegOverflow")
              ELSE parse_digits(Tail(d), acc * 10 - to_digit(Head(d)), positive)

\* Mutant of parse: characters that are not digits are skipped, not refused.
parse_skipping(s) ==
    parse_digits(SelectSeq(s, is_digit), 0, TRUE)

parse(s) ==
    IF s = <<>> THEN Err("Empty")
    ELSE IF s \in {<<"+">>, <<"-">>} THEN Err("InvalidDigit")
    ELSE IF Head(s) = "+" THEN parse_digits(Tail(s), 0, TRUE)
    ELSE IF Head(s) = "-" THEN parse_digits(Tail(s), 0, FALSE)
    ELSE parse_digits(s, 0, TRUE)

---------------------------------------------------------------------------
(* Guess (lines 214-236).  A call either returns (ret is Some) or panics   *)
(* (panic is Some).                                                        *)

Returns(v) == [ret |-> Some(v), panic |-> None]
Panics(msg) == [ret |-> None, panic |-> Some(msg)]

RangePanic(value) == <<"Guess value must be between 1 and 100, got {}", value>>
ParsePanic == <<"guess must be a number">>
ReadPanic == <<"Failed to read lines">>

\* Mutant of Guess_new: the bounds themselves are refused.
Guess_new_exclusive(value) ==
    IF value <= GuessMin \/ value >= GuessMax
    THEN Panics(RangePanic(value))
    ELSE Returns([value |-> value])

\* Mutant of Guess_new: the upper bound is not tested.
Guess_new_no_upper(value) ==
    IF value < GuessMin
    THEN Panics(RangePanic(value))
    ELSE Returns([value |-> value])

\* Mutant of Guess_new: the lower bound is that of the secret's range, 0.
Guess_new_from_zero(value) ==
    IF value < 0 \/ value > GuessMax
    THEN Panics(RangePanic(value))
    ELSE Returns([value |-> value])

Guess_new(value) ==
    IF value < GuessMin \/ value > GuessMax
    THEN Panics(RangePanic(value))
    ELSE Returns([value |-> value])

Guess_value(self) == self.value

\* Mutant of cmp: the two orders exchanged.
cmp_swapped(a, b) == IF a < b THEN "Greater" ELSE IF a > b THEN "Less" ELSE "Equal"

\* Mutant of cmp: a guess above the secret counts as a hit.
cmp_ge_equal(a, b) == IF a < b THEN "Less" ELSE "Equal"

\* i32::cmp (line 201).
cmp(a, b) == IF a < b THEN "Less" ELSE IF a > b THEN "Greater" ELSE "Equal"

---------------------------------------------------------------------------
(* What read_line can deliver. *)

Alphabet == {" ", "-", "1", "a"}

RECURSIVE SeqsUpTo(_)
SeqsUpTo(n) ==
    IF n = 0 THEN {<<>>}
    ELSE LET shorter == SeqsUpTo(n - 1)
         IN  shorter \cup { Append(s, c) : s \in { t \in shorter : Len(t) = n - 1 }, c \in Alphabet }

ExampleLines == {
    <<>>,                                                  \* end of input
    <<"4", "2">>,                                          \* a last line without its newline
    <<"4", "2", "\n">>,
    <<"1", "0", "\n">>,
    <<"9", "0", "\n">>,
    <<" ", "9", "9", "\r", "\n">>,
    <<"+", "7", "\n">>,
    <<"0", "\n">>,
    <<"1", "0", "0", "\n">>,
    <<"1", "0", "1", "\n">>,
    <<"1", "5", "0", "\n">>,
    <<"a", "b", "c", "\n">>,
    <<"4", " ", "2", "\n">>,
    <<"2", "1", "4", "7", "4", "8", "3", "6", "4", "8", "\n">>,
    <<"-", "2", "1", "4", "7", "4", "8", "3", "6", "4", "9", "\n">> }

StdinLines == { Append(s, "\n") : s \in SeqsUpTo(MaxLineLen) } \cup ExampleLines

\* read_line: an error, or Ok with the line read appended to the empty String.
StdinReads == {[ok |-> FALSE, line |-> <<>>]} \cup { [ok |-> TRUE, line |-> l] : l \in StdinLines }

---------------------------------------------------------------------------
(* The game. *)

Init ==
    /\ pc = "start"
    /\ secret_number = NoSecret
    /\ attempts = 0
    /\ stdout = <<>>
    /\ feedback = None
    /\ guess_line = None
    /\ guess_num = None
    /\ guess = None
    /\ panic = None

\* Mutant of start: the counter starts at 1.
start_attempts_from_one ==
    /\ pc = "start"
    /\ \E s \in gen_range(0, SecretRangeEnd) : secret_number' = s
    /\ attempts' = 1
    /\ stdout' = stdout \o <<WelcomeLine, PromptLine>>
    /\ pc' = "loop"
    /\ UNCHANGED <<feedback, guess_line, guess_num, guess, panic>>

\* Mutant of start: the second welcome line is not printed.
start_single_welcome ==
    /\ pc = "start"
    /\ \E s \in gen_range(0, SecretRangeEnd) : secret_number' = s
    /\ attempts' = 0
    /\ stdout' = stdout \o <<WelcomeLine>>
    /\ pc' = "loop"
    /\ UNCHANGED <<feedback, guess_line, guess_num, guess, panic>>

\* Lines 183-186: the secret is drawn, the counter set and the welcome printed.
start ==
    /\ pc = "start"
    /\ \E s \in gen_range(0, SecretRangeEnd) : secret_number' = s
    /\ attempts' = 0
    /\ stdout' = stdout \o <<WelcomeLine, PromptLine>>
    /\ pc' = "loop"
    /\ UNCHANGED <<feedback, guess_line, guess_num, guess, panic>>

\* The state a panic leaves: the process is gone, nothing else is written.
Abort(line, num, msg) ==
    /\ pc' = "panicked"
    /\ panic' = Some(msg)
    /\ guess_line' = line
    /\ guess_num' = num
    /\ guess' = None
    /\ UNCHANGED <<secret_number, attempts, stdout, feedback>>

\* Lines 192-199: one line is read, trimmed, parsed and validated, and the
\* attempt is counted.  attempts is an i32; MaxTurns keeps it far from
\* I32_MAX, where the increment would overflow.
read_guess ==
    /\ pc = "loop"
    /\ attempts < MaxTurns
    /\ \E r \in StdinReads :
         IF ~r.ok THEN Abort(None, None, ReadPanic)
         ELSE LET num == parse(trim(r.line)) IN
              IF ~num.ok THEN Abort(Some(r.line), Some(num), ParsePanic)
              ELSE LET made == Guess_new(num.val) IN
                   IF made.panic # None
                   THEN Abort(Some(r.line), Some(num), made.panic[1])
                   ELSE /\ guess_line' = Some(r.line)
                        /\ guess_num' = Some(num)
                        /\ guess' = made.ret
                        /\ attempts' = attempts + 1
                        /\ pc' = "match"
                        /\ UNCHANGED <<secret_number, stdout, feedback, panic>>

\* The locals of one iteration go out of scope at the end of the loop body.
DropLocals ==
    /\ guess_line' = None
    /\ guess_num' = None
    /\ guess' = None

\* Lines 201-209.  The two indices are drawn at the top of the iteration
\* (lines 189-190); a draw changes nothing but the index, so each is
\* quantified in the branch that uses it.
match_guess ==
    /\ pc = "match"
    /\ LET ord == cmp(guess[1].value, secret_number) IN
         CASE ord = "Less" ->
                \E random_index_small \in gen_range(0, Len(small_variations)) :
                  /\ stdout' = Append(stdout, SmallLine)
                  /\ feedback' = Some(small_variations[random_index_small + 1])
                  /\ pc' = "loop"
                  /\ UNCHANGED attempts
           [] ord = "Greater" ->
                \E random_index_large \in gen_range(0, Len(large_variations)) :
                  /\ stdout' = Append(stdout, LargeLine)
                  /\ feedback' = Some(large_variations[random_index_large + 1])
                  /\ pc' = "loop"
                  /\ UNCHANGED attempts
           [] ord = "Equal" ->
                  /\ stdout' = stdout \o <<ConfettiLine, VictoryLine(secret_number, attempts)>>
                  /\ pc' = "done"
                  /\ UNCHANGED <<attempts, feedback>>
    /\ DropLocals
    /\ UNCHANGED <<secret_number, panic>>

Next == start \/ read_guess \/ match_guess

Spec == Init /\ [][Next]_vars

---------------------------------------------------------------------------
(* Guess::new on its own: every argument near [1,100] and the extremes of  *)
(* i32, one call each.                                                     *)

HarnessValues ==
    ((GuessMin - ValueMargin) .. (GuessMax + ValueMargin)) \cup {I32_MIN, I32_MAX}

InitGuess ==
    /\ pc = "call"
    /\ \E v \in HarnessValues : guess_num = Some(Ok(v))
    /\ secret_number = NoSecret
    /\ attempts = 0
    /\ stdout = <<>>
    /\ feedback = None
    /\ guess_line = None
    /\ guess = None
    /\ panic = None

call_Guess_new ==
    /\ pc = "call"
    /\ LET made == Guess_new(guess_num[1].val) IN
         /\ guess' = made.ret
         /\ panic' = IF made.panic = None THEN None ELSE Some(made.panic[1])
         /\ pc' = IF made.panic = None THEN "returned" ELSE "panicked"
    /\ UNCHANGED <<secret_number, attempts, stdout, feedback, guess_line, guess_num>>

SpecGuess == InitGuess /\ [][call_Guess_new]_vars

---------------------------------------------------------------------------
(* Properties of Guess::new, checked under SpecGuess. *)

\* The argument of the harness's one call.
HarnessArg == guess_num[1].val
InGuessRange(v) == 1 <= v /\ v <= 100

\* C1: for every v with 1 <= v <= 100, Guess::new(v) returns a Guess (it
\* does not panic) and value() of that Guess is v.
C1_NewKeepsValue ==
    (pc # "call" /\ InGuessRange(HarnessArg)) =>
        /\ pc = "returned"
        /\ panic = None
        /\ guess # None
        /\ Guess_value(guess[1]) = HarnessArg

\* Guess::new(1) and Guess::new(100) have both returned.
C1_Witness ==
    /\ pc = "returned"
    /\ HarnessArg \in {1, 100}
    /\ guess # None
    /\ Guess_value(guess[1]) = HarnessArg

\* C2: for every v with v < 1 or v > 100, Guess::new(v) panics with the
\* range-violation message and returns no Guess; no Guess holds a value
\* outside [1,100].
C2_NewRefusesOutOfRange ==
    /\ (pc # "call" /\ ~InGuessRange(HarnessArg)) =>
          /\ pc = "panicked"
          /\ panic = Some(<<"Guess value must be between 1 and 100, got {}", HarnessArg>>)
          /\ guess = None
    /\ guess # None => InGuessRange(guess[1].value)

\* Guess::new has panicked on a boundary neighbour, 0 or 101.
C2_Witness ==
    /\ pc = "panicked"
    /\ HarnessArg \in {0, 101}
    /\ guess = None
    /\ panic # None

---------------------------------------------------------------------------
(* Properties of the game, checked under Spec. *)

\* C9: for every secret the game can draw there is an integer that
\* Guess::new accepts and that equals the secret, so the game can be won.
C9_EverySecretCanBeGuessed ==
    pc # "start" =>
        \E v \in (GuessMin - ValueMargin) .. (GuessMax + ValueMargin) :
            /\ Guess_new(v).ret # None
            /\ cmp(Guess_new(v).ret[1].value, secret_number) = "Equal"

\* The feedback lines among the lines written: one per completed turn that
\* was not a win.
FeedbackCount(out) ==
    Cardinality({ i \in DOMAIN out : out[i] \in {<<"small_variations">>, <<"large_variations">>} })

\* C3: in a turn whose accepted guess differs from the secret the counter
\* goes up by exactly 1 (when the guess is accepted, before the comparison),
\* exactly one line is written, from the "too small" pool when guess < secret
\* and from the "too large" pool when guess > secret, and the loop is back
\* at awaiting input, not terminated.
C3_NonWinningTurn ==
    [][ /\ (pc = "loop" /\ pc' = "match") =>
              /\ attempts' = attempts + 1
              /\ stdout' = stdout
        /\ (pc = "match" /\ guess[1].value # secret_number) =>
              /\ pc' = "loop"
              /\ attempts' = attempts
              /\ secret_number' = secret_number
              /\ feedback' # None
              /\ guess[1].value < secret_number =>
                    /\ stdout' = Append(stdout, <<"small_variations">>)
                    /\ feedback'[1] \in Range(small_variations)
              /\ guess[1].value > secret_number =>
                    /\ stdout' = Append(stdout, <<"large_variations">>)
                    /\ feedback'[1] \in Range(large_variations)
      ]_vars

\* Two turns that were not wins, the first too small, the second too large.
C3_Witness ==
    /\ pc = "loop"
    /\ attempts = 2
    /\ stdout = <<WelcomeLine, PromptLine, SmallLine, LargeLine>>
    /\ feedback # None
    /\ feedback[1] \in Range(large_variations)

\* The summary line, as the source's format string lays it out.
C4_Summary(secret, tries) ==
    <<"The secret number is indeed {}! You guessed it right with only {} tries! ", secret, tries>>

\* C4: when the accepted guess equals the secret, the counter has been
\* incremented first, the two victory lines are written, reporting the secret
\* and the number of turns including this one, and the loop halts: no step
\* follows.
C4_WinningTurn ==
    [][ /\ (pc = "loop" /\ pc' = "match") => attempts' = attempts + 1
        /\ (pc = "match" /\ guess[1].value = secret_number) =>
              /\ pc' = "done"
              /\ attempts = FeedbackCount(stdout) + 1
              /\ attempts' = attempts
              /\ secret_number' = secret_number
              /\ stdout' = stdout \o << <<"Cue the confetti!!">>,
                                        C4_Summary(secret_number, FeedbackCount(stdout) + 1) >>
        /\ pc # "done"
      ]_vars

\* Secret 42, guesses below, above, then 42: the third turn wins.
C4_Witness ==
    /\ pc = "done"
    /\ secret_number = 42
    /\ attempts = 3
    /\ stdout = <<WelcomeLine, PromptLine, SmallLine, LargeLine, ConfettiLine,
                  C4_Summary(42, 3)>>

\* The accepted guesses so far: the turns completed without a win, and the
\* one being compared or won.
TurnsTaken == FeedbackCount(stdout) + (IF pc \in {"match", "done"} THEN 1 ELSE 0)

\* C5: the counter is the number of accepted guesses so far: 0 before the
\* first turn, never decreasing, up by at most 1 in a step, and the total
\* including the winning turn at termination.
C5_AttemptsCountTurns ==
    /\ [](attempts = TurnsTaken)
    /\ [][attempts' \in {attempts, attempts + 1}]_vars

\* A game won on its third turn.
C5_Witness ==
    /\ pc = "done"
    /\ attempts = 3
    /\ FeedbackCount(stdout) = 2

\* The text of a line between its leading and trailing white space.
C6_Core(l) ==
    LET black == { i \in DOMAIN l : l[i] \notin {" ", "\t", "\n", "\r"} }
    IN  IF black = {} THEN <<>>
        ELSE SubSeq(l, CHOOSE i \in black : \A j \in black : i <= j,
                       CHOOSE i \in black : \A j \in black : j <= i)

\* A line that is an optional sign and one to nine decimal digits, white
\* space around it aside.  (Every such number fits i32; the lines of ten
\* digits the model reads both overflow it.)
C6_IsInteger(l) ==
    LET core == C6_Core(l)
        body == IF core # <<>> /\ core[1] \in {"+", "-"} THEN Tail(core) ELSE core
    IN  /\ body # <<>>
        /\ Len(body) <= 9
        /\ \A i \in DOMAIN body :
              body[i] \in {"0", "1", "2", "3", "4", "5", "6", "7", "8", "9"}

\* C6: a line that is not an integer aborts the game with "guess must be a
\* number": nothing is written, counter and secret are unchanged, and no
\* step follows the abort.
C6_ParseFailureAborts ==
    [][ /\ (pc = "loop" /\ guess_line' # None /\ ~C6_IsInteger(guess_line'[1])) =>
              /\ pc' = "panicked"
              /\ panic' = Some(<<"guess must be a number">>)
              /\ stdout' = stdout
              /\ feedback' = feedback
              /\ attempts' = attempts
              /\ secret_number' = secret_number
        /\ pc # "panicked"
      ]_vars

\* "abc" read in the second turn.
C6_Witness ==
    /\ pc = "panicked"
    /\ guess_line = Some(<<"a", "b", "c", "\n">>)
    /\ panic = Some(<<"guess must be a number">>)
    /\ attempts = 1
    /\ Len(stdout) = 3

\* C7: a line that parses to an integer outside [1,100] aborts the game with
\* the range-violation message, after the parse and before the comparison:
\* the counter is not incremented, nothing is written, no step follows.
C7_RangeViolationAborts ==
    [][ /\ (pc = "loop" /\ guess_num' # None /\ guess_num'[1].ok
                        /\ ~InGuessRange(guess_num'[1].val)) =>
              /\ pc' = "panicked"
              /\ panic' = Some(<<"Guess value must be between 1 and 100, got {}",
                                 guess_num'[1].val>>)
              /\ guess' = None
              /\ stdout' = stdout
              /\ feedback' = feedback
              /\ attempts' = attempts
        /\ (pc = "loop" /\ guess_line' \in {Some(<<"1", "5", "0", "\n">>), Some(<<"0", "\n">>)}) =>
              /\ pc' = "panicked"
              /\ guess_num' # None /\ guess_num'[1].ok
              /\ guess_num'[1].val = (IF Len(guess_line'[1]) = 2 THEN 0 ELSE 150)
        /\ pc # "panicked"
      ]_vars

\* "150" read in the second turn.
C7_Witness ==
    /\ pc = "panicked"
    /\ guess_line = Some(<<"1", "5", "0", "\n">>)
    /\ guess_num = Some(Ok(150))
    /\ attempts = 1
    /\ Len(stdout) = 3

IsFeedbackLine(l) == l \in {<<"small_variations">>, <<"large_variations">>}

\* C8: standard output is the two welcome lines, then one feedback line for
\* each accepted turn that was not a win, then, once the game is won, the
\* two victory lines and nothing after them.
C8_StdoutShape ==
    /\ pc = "start" => stdout = <<>>
    /\ pc # "start" =>
          /\ Len(stdout) >= 2
          /\ stdout[1] = <<"Welcome to the guessing game of epic proportions!">>
          /\ stdout[2] = <<"Alrighty, what number are you tossing into the ring today?">>
    /\ pc \in {"loop", "panicked"} =>
          /\ Len(stdout) = 2 + attempts
          /\ \A i \in 3 .. Len(stdout) : IsFeedbackLine(stdout[i])
    /\ pc = "match" =>
          /\ Len(stdout) = 2 + (attempts - 1)
          /\ \A i \in 3 .. Len(stdout) : IsFeedbackLine(stdout[i])
    /\ pc = "done" =>
          /\ Len(stdout) = 2 + (attempts - 1) + 2
          /\ \A i \in 3 .. (Len(stdout) - 2) : IsFeedbackLine(stdout[i])
          /\ stdout[Len(stdout) - 1] = <<"Cue the confetti!!">>
          /\ stdout[Len(stdout)] = C4_Summary(secret_number, attempts)

\* A game won on its second turn: two welcome lines, one feedback line, two
\* victory lines.
C8_Witness ==
    /\ pc = "done"
    /\ Len(stdout) = 5
    /\ IsFeedbackLine(stdout[3])

\* The loop has been left: by break or by a panic.
LoopHasEnded == pc \in {"done", "panicked"}

\* C10 as stated: the loop ends only by reaching Terminated.
C10_TerminatedIsSoleEnd ==
    LoopHasEnded => pc = "done"

\* C10 as amended: the loop is left by break only when the accepted guess
\* equals the secret; otherwise it ends only by the process aborting on a
\* read error, a line that is not a number or a guess out of range; after an
\* accepted guess that differs from the secret the loop awaits input again;
\* and no step follows either end.
C10_EndsByWinOrAbort ==
    [][ /\ pc' = "done" => (pc = "match" /\ guess[1].value = secret_number)
        /\ pc' = "panicked" =>
              /\ pc = "loop"
              /\ \/ panic' = Some(<<"Failed to read lines">>)
                 \/ panic' = Some(<<"guess must be a number">>)
                 \/ /\ guess_num' # None /\ guess_num'[1].ok
                    /\ ~InGuessRange(guess_num'[1].val)
        /\ (pc = "match" /\ guess[1].value # secret_number) => pc' = "loop"
        /\ ~LoopHasEnded
      ]_vars

\* The loop went round twice and then ended by a read error.
C10_Witness ==
    /\ pc = "panicked"
    /\ panic = Some(<<"Failed to read lines">>)
    /\ attempts = 2

====
